---- MODULE Spec2Model ----
(***************************************************************************)
(* slurmcore: the beat-synchronous slice / resample / echo loop of         *)
(* slurm.py (function slurm and the helpers it calls).                     *)
(*                                                                         *)
(* Numbers.  Samples are integers (fixed-point amplitudes).  Speeds,       *)
(* fractions and gains are rationals <<num, den>> with den > 0; a product  *)
(* sample * gain is rounded (floor), as every floating-point product is    *)
(* rounded.  Buffers are sequences, 1-based: Python's a[k] is a[k + 1].    *)
(***************************************************************************)
EXTENDS Integers, Sequences, FiniteSets, TLC

\* Longest input buffer, in samples.
MaxLen == 5

VARIABLES
    pc,               \* position in slurm: start, timing, ..., done, raised
    data,             \* the input buffer
    sample_rate,
    beats_per_minute,
    slice_settings,
    echo_settings,
    timing_function,  \* name of the timing curve passed in
    slices,           \* np.array_split(data, beats)
    slices_cut,       \* per-segment output
    echo_buf,         \* the carried echo buffer
    i,                \* loop index (0-based, as in the source)
    v,                \* timing_function(t) of the current iteration
    slice_data,       \* the rate-resampled window of the current iteration
    to_echo,          \* feedback input of the current iteration
    inter_data,       \* the returned buffer
    calls,            \* invocations of the library resamplers so far
    timing_log,       \* arguments t = <<i, N>> the timing function was called with
    echo_prev,        \* echo_buf as it was before the last statement that assigned it
    echo_iter,        \* iteration whose statements last assigned echo_buf (-1: none)
    call              \* a helper called on its own: function, arguments, outcome

vars == <<pc, data, sample_rate, beats_per_minute, slice_settings, echo_settings,
          timing_function, slices, slices_cut, echo_buf, i, v, slice_data, to_echo,
          inter_data, calls, timing_log, echo_prev, echo_iter, call>>

(***************************************************************************)
(* Arithmetic                                                              *)
(***************************************************************************)
Min(a, b) == IF a <= b THEN a ELSE b

Max(a, b) == IF a >= b THEN a ELSE b

\* int(a / b) for b > 0: Python's int() truncates toward zero.
Trunc(a, b) == IF a >= 0 THEN a \div b ELSE -((-a) \div b)

\* ceil(a / b) for b > 0.
Ceil(a, b) == -((-a) \div b)

IsOne(r) == r[1] = r[2]

\* 1 - r
OneMinus(r) == <<r[2] - r[1], r[2]>>

(***************************************************************************)
(* numpy array operations                                                  *)
(***************************************************************************)
\* The function f on 1..n as an array (a tuple, which TLC indexes in constant time).
Array(f, n) == SubSeq(f, 1, n)

\* Mutant: an array that is not cleared.
Zeros_Ones(n) == Array([k \in 1..n |-> 1], n)

Zeros(n) == Array([k \in 1..n |-> 0], n)

AllZero(x) == \A k \in 1..Len(x) : x[k] = 0

\* x * g
Scale(x, g) == Array([k \in 1..Len(x) |-> (x[k] * g[1]) \div g[2]], Len(x))

\* x + y, elementwise
Add(x, y) == Array([k \in 1..Len(x) |-> x[k] + y[k]], Len(x))

\* np.flip
Flip(x) == Array([k \in 1..Len(x) |-> x[Len(x) + 1 - k]], Len(x))

\* a[start : end] with Python's slice semantics: negative indices count from the
\* end, out-of-range indices are clamped, an empty range gives an empty array.
PySlice(a, start, end) ==
    LET n  == Len(a)
        lo == IF start < 0 THEN Max(start + n, 0) ELSE Min(start, n)
        hi == IF end < 0 THEN Max(end + n, 0) ELSE Min(end, n)
    IN  IF lo < hi THEN SubSeq(a, lo + 1, hi) ELSE <<>>

\* np.resize(a, n): a repeated cyclically and cut to n elements (zeros for empty a).
NpResize(a, n) ==
    IF Len(a) = 0 THEN Zeros(n)
    ELSE Array([k \in 1..n |-> a[((k - 1) % Len(a)) + 1]], n)

\* np.array_split(ary, sections) for sections >= 1: the first len % sections
\* parts hold one element more than the others.
\* Mutant: equal parts, the remainder dropped.
ArraySplit_NoExtras(ary, sections) ==
    LET each == Len(ary) \div sections
    IN  [k \in 1..sections |-> SubSeq(ary, (k - 1) * each + 1, k * each)]

ArraySplit(ary, sections) ==
    LET each   == Len(ary) \div sections
        extras == Len(ary) % sections
        first(k) == (k - 1) * each + Min(k - 1, extras)
    IN  [k \in 1..sections |-> SubSeq(ary, first(k) + 1, first(k + 1))]

RECURSIVE Concatenate(_)
\* np.concatenate
Concatenate(parts) ==
    IF Len(parts) = 0 THEN <<>>
    ELSE Head(parts) \o Concatenate(Tail(parts))

(***************************************************************************)
(* The library resamplers.  Each returns the outcomes the call can have:   *)
(* raised, or the buffer y, with the number of library invocations made.   *)
(***************************************************************************)
Raised == [raised |-> TRUE, y |-> <<>>, librosa |-> 0, scipy |-> 0]

Returned(y, nl, ns) == [raised |-> FALSE, y |-> y, librosa |-> nl, scipy |-> ns]

\* Output sample k of an n-sample rendering of x lies at the fraction (k-1)/n of
\* x's duration: the time mapping of both resamplers (sample and hold).
Interpolate(x, n) == Array([k \in 1..n |-> x[(((k - 1) * Len(x)) \div n) + 1]], n)

\* librosa.resample(y, orig_sr, target_sr), target_sr = <<num, den>>:
\* ceil(len(y) * target_sr / orig_sr) samples; fewer than one is an error.
LibrosaResample(y, orig_sr, target_sr) ==
    LET n_samples == Ceil(Len(y) * target_sr[1], target_sr[2] * orig_sr)
    IN  IF n_samples < 1 THEN {Raised}
        ELSE {Returned(Interpolate(y, n_samples), 1, 0)}

\* Rounding errors of an FFT round trip, in units of the last place.  The
\* transform of an all-zero buffer is exactly zero.
FftRounding(x) == IF AllZero(x) THEN {0} ELSE {-1, 0, 1}

\* scipy.signal.resample(x, num): rfft, spectrum cut or padded, irfft.  It has
\* no shortcut for num = len(x); an empty input or num = 0 is an error.  The
\* rounding error is put on the first sample.
SignalResample(x, num) ==
    IF Len(x) = 0 \/ num = 0 THEN {Raised}
    ELSE {Returned([Interpolate(x, num) EXCEPT ![1] = @ + e], 0, 1) : e \in FftRounding(x)}

(***************************************************************************)
(* slurm.py helpers                                                        *)
(***************************************************************************)
\* Mutant: a window that runs past the segment is replaced by the whole segment.
get_fractional_slice_Default(in_slice, start, length) ==
    LET slice_start == Trunc(Len(in_slice) * start[1], start[2])
        slice_end   == slice_start + Trunc(Len(in_slice) * length[1], length[2])
    IN  IF slice_end > Len(in_slice) THEN in_slice
        ELSE PySlice(in_slice, slice_start, slice_end)

get_fractional_slice(in_slice, start, length) ==
    LET slice_start == Trunc(Len(in_slice) * start[1], start[2])
        slice_end   == slice_start + Trunc(Len(in_slice) * length[1], length[2])
    IN  PySlice(in_slice, slice_start, slice_end)

resample_multiplier(x, sr, multiplier) ==
    IF IsOne(multiplier) THEN {Returned(x, 0, 0)}
    ELSE LibrosaResample(x, sr, <<sr * multiplier[1], multiplier[2]>>)

\* Mutant: no shortcut for a divider of 1.
resample_divider_Always(x, sr, divider) ==
    LibrosaResample(x, sr, <<sr * divider[2], divider[1]>>)

resample_divider(x, sr, divider) ==
    IF IsOne(divider) THEN {Returned(x, 0, 0)}
    ELSE LibrosaResample(x, sr, <<sr * divider[2], divider[1]>>)

\* Mutant: the target size is ignored.
resample_n_samples_SameSize(x, target_size) == SignalResample(x, Len(x))

\* Mutant: a shortcut when the buffer already has the target size.
resample_n_samples_Shortcut(x, target_size) ==
    IF target_size = Len(x) THEN {Returned(x, 0, 0)}
    ELSE SignalResample(x, target_size)

resample_n_samples(x, target_size) == SignalResample(x, target_size)

\* Mutant: beats per second in place of seconds per beat.
BeatSampleLength_Inverted(sr, bpm) == (bpm * sr) \div 60

\* floor(60 / beats_per_minute * sample_rate)
BeatSampleLength(sr, bpm) == (60 * sr) \div bpm

\* floor(data_size / beat_sample_length)
Beats(data_size, beat_sample_length) == data_size \div beat_sample_length

\* Mutant: the loop index counted from 1.
TimingArg_FromOne(idx, n) == <<idx + 1, n>>

\* t = i / len(slices)
TimingArg(idx, n) == <<idx, n>>

\* The timing curves: the default (lambda t: 1), main.py's 1.5 - t * 0.5, and a
\* constant 2.
TimingFunction(name, t) ==
    CASE name = "one"  -> <<1, 1>>
      [] name = "main" -> <<3 * t[2] - t[1], 2 * t[2]>>
      [] name = "two"  -> <<2, 1>>

TimingFunctions == {"one", "main", "two"}

(***************************************************************************)
(* Settings                                                                *)
(***************************************************************************)
DefaultEchoSettings ==
    [mix |-> <<1, 2>>, multiplier |-> <<1, 1>>, slice_mix |-> <<65, 100>>,
     internal_resample_multiplier |-> <<11, 10>>,
     internal_resample_drywet |-> <<85, 100>>,
     internal_flip |-> TRUE, internal_flip_drywet |-> <<4, 10>>,
     flipflop |-> FALSE]

DefaultSliceSettings ==
    [beat_offset |-> <<0, 1>>, beat_size |-> <<1, 2>>, mix |-> <<15, 100>>,
     reverse |-> FALSE]

\* main.py's echo settings
MainEchoSettings ==
    [DefaultEchoSettings EXCEPT !.mix = <<2, 10>>, !.multiplier = <<6, 10>>,
                                !.internal_flip = FALSE,
                                !.internal_resample_multiplier = <<1, 1>>]

\* An echo that neither sounds nor feeds back.
SilentEchoSettings ==
    [DefaultEchoSettings EXCEPT !.mix = <<0, 1>>, !.multiplier = <<0, 1>>,
                                !.slice_mix = <<0, 1>>,
                                !.internal_flip = FALSE,
                                !.internal_resample_multiplier = <<1, 1>>]

EchoSettingsSet ==
    {DefaultEchoSettings, MainEchoSettings, SilentEchoSettings,
     [DefaultEchoSettings EXCEPT !.internal_resample_multiplier = <<2, 1>>,
                                 !.slice_mix = <<1, 1>>, !.internal_flip = FALSE,
                                 !.flipflop = TRUE],
     [MainEchoSettings EXCEPT !.internal_resample_multiplier = <<1, 2>>,
                              !.slice_mix = <<1, 1>>, !.flipflop = TRUE]}

SliceSettingsSet ==
    {[beat_offset |-> o, beat_size |-> s, mix |-> m[1], reverse |-> m[2]] :
        o \in {<<0, 1>>, <<1, 2>>, <<-1, 2>>},
        s \in {<<1, 2>>, <<1, 1>>, <<3, 2>>},
        m \in {<< <<15, 100>>, FALSE >>, << <<1, 1>>, FALSE >>, << <<8, 10>>, TRUE >>}}

\* Input buffers: silence and a ramp.
Silence(n) == Array([k \in 1..n |-> 0], n)

Ramp(n) == Array([k \in 1..n |-> 100 * k], n)

Buffers == UNION {{Silence(n), Ramp(n)} : n \in 1..MaxLen}

Tempos == {120, 161}

(***************************************************************************)
(* slurm                                                                   *)
(***************************************************************************)
NoCall == [fn |-> "slurm"]

\* The locals of slurm before its first statement.
Locals ==
    /\ slices = <<>>
    /\ slices_cut = <<>>
    /\ echo_buf = <<>>
    /\ i = 0
    /\ v = <<1, 1>>
    /\ slice_data = <<>>
    /\ to_echo = <<>>
    /\ inter_data = <<>>
    /\ calls = [librosa |-> 0, scipy |-> 0]
    /\ timing_log = <<>>
    /\ echo_prev = <<>>
    /\ echo_iter = -1

Init ==
    /\ pc = "start"
    /\ data \in Buffers
    /\ sample_rate = 4
    /\ beats_per_minute \in Tempos
    /\ slice_settings \in SliceSettingsSet
    /\ echo_settings \in EchoSettingsSet
    /\ timing_function \in TimingFunctions
    /\ call = NoCall
    /\ Locals

\* The arguments of the call, which no statement assigns.
Inputs == <<data, sample_rate, beats_per_minute, slice_settings, echo_settings,
            timing_function, call>>

Window(segment) ==
    get_fractional_slice(segment, slice_settings.beat_offset, slice_settings.beat_size)

Count(r) == [librosa |-> calls.librosa + r.librosa, scipy |-> calls.scipy + r.scipy]

\* An exception leaves slurm: nothing is returned.
Raise ==
    /\ pc' = "raised"
    /\ UNCHANGED <<slices, slices_cut, echo_buf, i, v, slice_data, to_echo, inter_data,
                   calls, timing_log, echo_prev, echo_iter>>

\* Lines 70-79: split the buffer into beats; np.array_split raises for
\* beats <= 0.
Split ==
    /\ pc = "start"
    /\ UNCHANGED Inputs
    /\ LET beat_sample_length == BeatSampleLength(sample_rate, beats_per_minute)
           beats == Beats(Len(data), beat_sample_length)
       IN  IF beats <= 0 THEN Raise
           ELSE LET parts == ArraySplit(data, beats)
                    slurmed_slice_size == Len(Window(parts[1]))
                IN  /\ slices' = parts
                    /\ slices_cut' = [k \in 1..Len(parts) |-> Zeros(slurmed_slice_size)]
                    /\ echo_buf' = Zeros(slurmed_slice_size)
                    /\ pc' = "timing"
                    /\ UNCHANGED <<i, v, slice_data, to_echo, inter_data, calls,
                                   timing_log, echo_prev, echo_iter>>

\* Lines 82-85: t = i / len(slices); v = timing_function(t).
Timing ==
    /\ pc = "timing"
    /\ UNCHANGED Inputs
    /\ LET t == TimingArg(i, Len(slices))
       IN  /\ v' = TimingFunction(timing_function, t)
           /\ timing_log' = Append(timing_log, t)
    /\ pc' = "resample"
    /\ UNCHANGED <<slices, slices_cut, echo_buf, i, slice_data, to_echo, inter_data,
                   calls, echo_prev, echo_iter>>

\* The slice mixed into the output: lines 89-92.
SliceOut(x) ==
    LET scaled == Scale(x, slice_settings.mix)
    IN  IF slice_settings.reverse THEN Flip(scaled) ELSE scaled

\* Lines 88-92: cut the window, rate-resample it by v, scale and reverse it.
Resample ==
    /\ pc = "resample"
    /\ UNCHANGED Inputs
    /\ \E r \in resample_divider(Window(slices[i + 1]), sample_rate, v) :
          IF r.raised THEN Raise
          ELSE /\ slice_data' = r.y
               /\ slices_cut' = [slices_cut EXCEPT ![i + 1] = SliceOut(r.y)]
               /\ calls' = Count(r)
               /\ pc' = "resize"
               /\ UNCHANGED <<slices, echo_buf, i, v, to_echo, inter_data, timing_log,
                              echo_prev, echo_iter>>

\* Lines 95-96: bring the echo buffer to the slice's length, mix it into the output.
Resize ==
    /\ pc = "resize"
    /\ UNCHANGED Inputs
    /\ \E r \in resample_n_samples(echo_buf, Len(slice_data)) :
          IF r.raised THEN Raise
          ELSE /\ echo_buf' = r.y
               /\ echo_prev' = echo_buf
               /\ echo_iter' = i
               /\ slices_cut' = [slices_cut EXCEPT
                                   ![i + 1] = Add(@, Scale(r.y, echo_settings.mix))]
               /\ calls' = Count(r)
               /\ pc' = "decay"
               /\ UNCHANGED <<slices, i, v, slice_data, to_echo, inter_data, timing_log>>

\* Line 98: echo_buf *= multiplier.
Decay ==
    /\ pc = "decay"
    /\ UNCHANGED Inputs
    /\ echo_buf' = Scale(echo_buf, echo_settings.multiplier)
    /\ echo_prev' = echo_buf
    /\ echo_iter' = i
    /\ pc' = "morph"
    /\ UNCHANGED <<slices, slices_cut, i, v, slice_data, to_echo, inter_data, calls,
                   timing_log>>

\* Line 104: the crossfade of the echo with its speed-changed copy.
Crossfade(echo, echo_resamp, drywet) ==
    Add(Scale(echo, OneMinus(drywet)), Scale(echo_resamp, drywet))

\* Lines 102-104: the speed morph of the echo.
Morph ==
    /\ pc = "morph"
    /\ UNCHANGED Inputs
    /\ IF ~IsOne(echo_settings.internal_resample_multiplier)
       THEN \E r \in resample_multiplier(echo_buf, sample_rate,
                                         echo_settings.internal_resample_multiplier) :
               IF r.raised THEN Raise
               ELSE /\ echo_buf' = Crossfade(echo_buf, NpResize(r.y, Len(slice_data)),
                                             echo_settings.internal_resample_drywet)
                    /\ echo_prev' = echo_buf
                    /\ echo_iter' = i
                    /\ calls' = Count(r)
                    /\ pc' = "feedback"
                    /\ UNCHANGED <<slices, slices_cut, i, v, slice_data, to_echo,
                                   inter_data, timing_log>>
       ELSE /\ pc' = "feedback"
            /\ UNCHANGED <<slices, slices_cut, echo_buf, i, v, slice_data, to_echo,
                           inter_data, calls, timing_log, echo_prev, echo_iter>>

\* Mutant: the feedback input built from the slice as it is mixed into the output.
ToEcho_FromOutput(x) ==
    LET out == SliceOut(x)
    IN  IF echo_settings.internal_flip
        THEN Add(Scale(out, OneMinus(echo_settings.internal_flip_drywet)),
                 Scale(Flip(out), echo_settings.internal_flip_drywet))
        ELSE out

\* Lines 106-109: the feedback input.
ToEcho(x) ==
    IF echo_settings.internal_flip
    THEN Add(Scale(x, OneMinus(echo_settings.internal_flip_drywet)),
             Scale(Flip(x), echo_settings.internal_flip_drywet))
    ELSE x

\* Lines 106-111: build the feedback input and add it to the echo.
Feedback ==
    /\ pc = "feedback"
    /\ UNCHANGED Inputs
    /\ to_echo' = ToEcho(slice_data)
    /\ echo_buf' = Add(echo_buf, Scale(ToEcho(slice_data), echo_settings.slice_mix))
    /\ echo_prev' = echo_buf
    /\ echo_iter' = i
    /\ pc' = "flipflop"
    /\ UNCHANGED <<slices, slices_cut, i, v, slice_data, inter_data, calls, timing_log>>

\* Lines 113-114, and the loop's step to the next slice.
FlipFlop ==
    /\ pc = "flipflop"
    /\ UNCHANGED Inputs
    /\ IF echo_settings.flipflop
       THEN echo_buf' = Flip(echo_buf) /\ echo_prev' = echo_buf /\ echo_iter' = i
       ELSE UNCHANGED <<echo_buf, echo_prev, echo_iter>>
    /\ i' = i + 1
    /\ pc' = IF i + 1 < Len(slices) THEN "timing" ELSE "combine"
    /\ UNCHANGED <<slices, slices_cut, v, slice_data, to_echo, inter_data, calls,
                   timing_log>>

\* Lines 117-120: concatenate the output slices and return them.
Combine ==
    /\ pc = "combine"
    /\ UNCHANGED Inputs
    /\ inter_data' = Concatenate(slices_cut)
    /\ pc' = "done"
    /\ UNCHANGED <<slices, slices_cut, echo_buf, i, v, slice_data, to_echo, calls,
                   timing_log, echo_prev, echo_iter>>

Next ==
    \/ Split
    \/ Timing
    \/ Resample
    \/ Resize
    \/ Decay
    \/ Morph
    \/ Feedback
    \/ FlipFlop
    \/ Combine

Spec == Init /\ [][Next]_vars

(***************************************************************************)
(* The end-to-end scenario: seconds of silence at 120 BPM, whole beats at   *)
(* full level, a silent echo, the constant timing curve.  The run is       *)
(* explored at reduced sample rates; the slicing of the 44100 Hz buffer is *)
(* computed at full size by ScenarioSlices.                                *)
(***************************************************************************)
ScenarioSeconds == {1, 2, 3, 4}

ScenarioRates == {10, 20, 100}

\* Lines 70-76 on the 4-second, 44100 Hz buffer at 120 BPM.
ScenarioSlices ==
    LET buffer == Silence(4 * 44100)
    IN  ArraySplit(buffer, Beats(Len(buffer), BeatSampleLength(44100, 120)))

ScenarioSliceSettings ==
    [DefaultSliceSettings EXCEPT !.beat_size = <<1, 1>>, !.mix = <<1, 1>>]

InitE2E ==
    /\ pc = "start"
    /\ sample_rate \in ScenarioRates
    /\ \E seconds \in ScenarioSeconds : data = Silence(seconds * sample_rate)
    /\ beats_per_minute = 120
    /\ slice_settings = ScenarioSliceSettings
    /\ echo_settings = SilentEchoSettings
    /\ timing_function = "one"
    /\ call = NoCall
    /\ Locals

SpecE2E == InitE2E /\ [][Next]_vars

(***************************************************************************)
(* The resampling helpers called on their own, on any buffer.              *)
(***************************************************************************)
Factors == {<<1, 1>>, <<1, 2>>, <<2, 1>>, <<11, 10>>, <<3, 2>>}

InitHelpers ==
    /\ pc = "helper"
    /\ data \in Buffers
    /\ sample_rate \in {4, 44100}
    /\ beats_per_minute = 120
    /\ slice_settings = DefaultSliceSettings
    /\ echo_settings = DefaultEchoSettings
    /\ timing_function = "one"
    /\ \E fn \in {"resample_multiplier", "resample_divider", "resample_n_samples"},
          factor \in Factors, target_size \in 0..MaxLen :
          call = [fn |-> fn, factor |-> factor, target_size |-> target_size, ret |-> <<>>]
    /\ Locals

HelperOutcomes ==
    CASE call.fn = "resample_multiplier" ->
            resample_multiplier(data, sample_rate, call.factor)
      [] call.fn = "resample_divider" ->
            resample_divider(data, sample_rate, call.factor)
      [] call.fn = "resample_n_samples" ->
            resample_n_samples(data, call.target_size)

\* One call of a helper: it returns a buffer or raises.
CallHelper ==
    /\ pc = "helper"
    /\ \E r \in HelperOutcomes :
          /\ pc' = IF r.raised THEN "raised" ELSE "returned"
          /\ call' = [call EXCEPT !.ret = r.y]
          /\ calls' = Count(r)
    /\ UNCHANGED <<data, sample_rate, beats_per_minute, slice_settings, echo_settings,
                   timing_function, slices, slices_cut, echo_buf, i, v, slice_data,
                   to_echo, inter_data, timing_log, echo_prev, echo_iter>>

SpecHelpers == InitHelpers /\ [][CallHelper]_vars

(***************************************************************************)
(* Properties                                                              *)
(***************************************************************************)
InSlurm == call = NoCall

\* floor(L / floor(60 / BPM * sample_rate)), from the inputs alone
SegmentCount == Len(data) \div ((60 * sample_rate) \div beats_per_minute)

RECURSIVE TotalLen(_)
TotalLen(parts) == IF Len(parts) = 0 THEN 0 ELSE Len(Head(parts)) + TotalLen(Tail(parts))

\* C1: when N = floor(L / beat_samples) >= 1 the slicing step yields exactly N
\* segments, each the run of the input that starts where the one before it
\* ends (contiguous, non-overlapping, in temporal order), and their
\* concatenation in index order is the input buffer.
C1_SegmentPartition ==
    (InSlurm /\ pc # "start" /\ SegmentCount >= 1) =>
        /\ Len(slices) = SegmentCount
        /\ \A k \in 1..Len(slices) :
              LET before == TotalLen(SubSeq(slices, 1, k - 1))
              IN  slices[k] = SubSeq(data, before + 1, before + Len(slices[k]))
        /\ Concatenate(slices) = data

\* Segments of unequal length have been cut and the run has finished.
C1_Witness ==
    /\ InSlurm /\ pc = "done"
    /\ Len(slices) >= 2
    /\ Len(slices[1]) # Len(slices[Len(slices)])
    /\ ~AllZero(data)

\* The run of the 4-second scenario has returned.
IsScenario ==
    /\ InSlurm /\ pc = "done"
    /\ sample_rate \in ScenarioRates /\ Len(data) = 4 * sample_rate /\ AllZero(data)
    /\ beats_per_minute = 120
    /\ slice_settings = ScenarioSliceSettings
    /\ echo_settings = SilentEchoSettings
    /\ timing_function = "one"

\* C2 as stated: the 4-second scenario gives beat_samples = 22050 and N = 4
\* segments at 44100 Hz, and the run returns 4 beats of samples (88200 at
\* 44100 Hz), all zero.
C2_Original ==
    IsScenario =>
        /\ BeatSampleLength(44100, 120) = 22050
        /\ Len(ScenarioSlices) = 4
        /\ TotalLen(ScenarioSlices) = 88200
        /\ Len(slices) = 4
        /\ Len(inter_data) = 4 * BeatSampleLength(sample_rate, beats_per_minute)
        /\ AllZero(inter_data)

\* C2 amended: the 4-second scenario (176400 samples at 44100 Hz) gives
\* beat_samples = 22050 and N = 8 segments of 22050 samples, and the run returns
\* 8 beats of samples (8 * 22050 = 176400 at 44100 Hz), as many as the input
\* holds, all zero.
C2_Amended ==
    IsScenario =>
        /\ BeatSampleLength(44100, 120) = 22050
        /\ Len(ScenarioSlices) = 8
        /\ \A k \in 1..Len(ScenarioSlices) : Len(ScenarioSlices[k]) = 22050
        /\ TotalLen(ScenarioSlices) = 176400
        /\ Len(slices) = 8
        /\ Len(inter_data) = 8 * BeatSampleLength(sample_rate, beats_per_minute)
        /\ Len(inter_data) = Len(data)
        /\ AllZero(inter_data)

C2_Witness == IsScenario /\ Len(inter_data) > 0

\* C3: from the resize of the echo buffer in iteration i until the iteration
\* ends (and up to the next resize), len(echo_buf) = len(slice_data).
C3_EchoLength ==
    (InSlurm /\ (pc \in {"decay", "morph", "feedback", "flipflop"}
                 \/ (pc \in {"timing", "combine", "done"} /\ i >= 1))) =>
        Len(echo_buf) = Len(slice_data)

\* A later iteration with a segment shorter than the first, a timing curve that
\* changes v, a speed morph and the flip-flop, and an echo that was resized.
C3_Witness ==
    /\ InSlurm /\ pc = "flipflop" /\ i >= 1
    /\ Len(slices[i + 1]) # Len(slices[1])
    /\ timing_function = "main"
    /\ ~IsOne(echo_settings.internal_resample_multiplier)
    /\ echo_settings.flipflop
    /\ ~AllZero(echo_buf)

\* C4: an all-zero input keeps the echo buffer and every output slice all
\* zero, and the returned buffer is all zero, whatever the settings.
C4_Silence ==
    (InSlurm /\ AllZero(data)) =>
        /\ AllZero(echo_buf)
        /\ \A k \in 1..Len(slices_cut) : AllZero(slices_cut[k])
        /\ AllZero(inter_data)

C4_Witness ==
    /\ InSlurm /\ pc = "done" /\ AllZero(data)
    /\ Len(inter_data) >= 2
    /\ echo_settings.mix[1] # 0 /\ echo_settings.slice_mix[1] # 0
    /\ ~IsOne(echo_settings.internal_resample_multiplier)

IdentityResize ==
    /\ pc \in {"returned", "raised"}
    /\ call.fn = "resample_n_samples"
    /\ call.target_size = Len(data)

\* C5 as stated: resample_n_samples(x, len(x)) returns x unchanged, with no
\* interpolation applied.
C5_Original ==
    IdentityResize =>
        pc = "returned" /\ call.ret = data /\ calls.scipy = 0

\* C5 amended: resample_n_samples(x, len(x)) always runs the FFT resampler; it
\* returns len(x) samples that equal x up to the rounding error of the
\* transform, and exactly when x is all zero.
C5_Amended ==
    IdentityResize =>
        /\ pc = "returned"
        /\ calls.scipy = 1
        /\ Len(call.ret) = Len(data)
        /\ \A k \in 1..Len(data) : call.ret[k] - data[k] \in {-1, 0, 1}
        /\ AllZero(data) => call.ret = data

C5_Witness == IdentityResize /\ pc = "returned" /\ call.ret # data

UnitFactor ==
    /\ pc \in {"returned", "raised"}
    /\ call.fn \in {"resample_multiplier", "resample_divider"}
    /\ IsOne(call.factor)

\* C6: resample_multiplier(x, sr, 1) and resample_divider(x, sr, 1) return x
\* and invoke no library resampler.
C6_UnitFactor ==
    UnitFactor =>
        pc = "returned" /\ call.ret = data /\ calls.librosa = 0 /\ calls.scipy = 0

C6_Witness ==
    /\ UnitFactor /\ pc = "returned" /\ call.fn = "resample_divider"
    /\ ~AllZero(data) /\ Len(data) >= 2

\* beat_offset + beat_size outside [0, 1]
OutOfRange ==
    LET o == slice_settings.beat_offset
        s == slice_settings.beat_size
        sum == o[1] * s[2] + s[1] * o[2]
    IN  sum < 0 \/ sum > o[2] * s[2]

\* C7 as stated: with the window out of range slurm raises at the first use of
\* the window and returns nothing.
C7_Original ==
    (InSlurm /\ OutOfRange) => (pc \in {"start", "raised"} /\ inter_data = <<>>)

\* The window of a segment, cut at the segment's end (offset >= 0).
ClampedWindow(segment) ==
    LET n     == Len(segment)
        o     == slice_settings.beat_offset
        s     == slice_settings.beat_size
        start == (n * o[1]) \div o[2]
        stop  == start + (n * s[1]) \div s[2]
    IN  SubSeq(segment, Min(start, n) + 1, Min(stop, n))

\* C7 amended: a window that runs past the segment's end (beat_offset >= 0,
\* beat_offset + beat_size > 1) is not an error: it is silently cut at the
\* segment's end, every segment is processed, and when no window comes out
\* empty the run returns the concatenated output.
C7_Amended ==
    (InSlurm /\ OutOfRange /\ slice_settings.beat_offset[1] >= 0 /\ SegmentCount >= 1) =>
        /\ (pc = "resize" /\ IsOne(v)) => slice_data = ClampedWindow(slices[i + 1])
        /\ (pc = "resize" /\ ~IsOne(v)) =>
              Len(slice_data) = Ceil(Len(ClampedWindow(slices[i + 1])) * v[2], v[1])
        /\ (pc # "start" /\ \A k \in 1..Len(slices) : Len(ClampedWindow(slices[k])) > 0) =>
              pc # "raised"
        /\ pc = "done" =>
              /\ Len(slices_cut) = SegmentCount
              /\ inter_data = Concatenate(slices_cut)
              /\ Len(inter_data) > 0

\* The run ends with an output shorter than whole segments would give.
C7_Witness ==
    /\ InSlurm /\ OutOfRange /\ pc = "done"
    /\ slice_settings.beat_offset[1] > 0
    /\ Len(inter_data) > 0 /\ Len(inter_data) < Len(data)
    /\ IsOne(v)

\* The slice as it is mixed into the output: scaled by SliceSettings.mix and
\* reversed when SliceSettings.reverse is set.
MixedSlice ==
    LET scaled == Scale(slice_data, slice_settings.mix)
    IN  IF slice_settings.reverse THEN Flip(scaled) ELSE scaled

FlipMix(x) ==
    IF echo_settings.internal_flip
    THEN Add(Scale(x, OneMinus(echo_settings.internal_flip_drywet)),
             Scale(Flip(x), echo_settings.internal_flip_drywet))
    ELSE x

\* C8 as stated: to_echo is built from the slice that is mixed into the output
\* (scaled by SliceSettings.mix, reversed when reverse is set), and echo_buf
\* gains to_echo * slice_mix.
C8_Original ==
    (InSlurm /\ pc = "flipflop") =>
        /\ to_echo = FlipMix(MixedSlice)
        /\ echo_buf = Add(echo_prev, Scale(to_echo, echo_settings.slice_mix))

\* The rate-resampled window of segment i, neither scaled nor reversed.
RawSlice ==
    LET window == Window(slices[i + 1])
    IN  IF IsOne(v) THEN window
        ELSE Interpolate(window, Ceil(Len(window) * v[2], v[1]))

\* C8 amended: to_echo is built from the rate-resampled window before it is
\* scaled by SliceSettings.mix and before it is reversed:
\* to_echo = raw * (1 - flip_drywet) + reverse(raw) * flip_drywet when
\* internal_flip is set, otherwise raw; echo_buf then gains to_echo * slice_mix.
C8_Amended ==
    (InSlurm /\ pc = "flipflop") =>
        /\ slice_data = RawSlice
        /\ to_echo = FlipMix(RawSlice)
        /\ echo_buf = Add(echo_prev, Scale(to_echo, echo_settings.slice_mix))

C8_Witness ==
    /\ InSlurm /\ pc = "flipflop"
    /\ echo_settings.internal_flip /\ slice_settings.reverse
    /\ Len(slice_data) >= 2
    /\ to_echo # FlipMix(MixedSlice)

\* C9: with internal_resample_multiplier # 1 the echo after the speed morph is
\* echo * (1 - drywet) + morphed * drywet, where morphed is the decayed echo
\* rate-resampled by the multiplier and then fixed-length-resampled back to
\* len(slice_data).
C9_MorphStretches ==
    (InSlurm /\ pc = "feedback" /\ ~IsOne(echo_settings.internal_resample_multiplier)) =>
        \E r \in resample_multiplier(echo_prev, sample_rate,
                                     echo_settings.internal_resample_multiplier) :
            /\ ~r.raised
            /\ \E m \in resample_n_samples(r.y, Len(slice_data)) :
                  /\ ~m.raised
                  /\ echo_buf = Crossfade(echo_prev, m.y,
                                          echo_settings.internal_resample_drywet)

\* C10: the timing function is called once per segment, in the order
\* i = 0, 1, ..., N-1, with t = i / N < 1; at the call for segment i the echo
\* buffer was last assigned in segment i-1, and it is assigned in segment i
\* only after that call.
C10_TimingCalls ==
    InSlurm =>
        /\ \A k \in 1..Len(timing_log) :
              timing_log[k] = <<k - 1, Len(slices)>> /\ k - 1 < Len(slices)
        /\ pc = "start" => Len(timing_log) = 0
        /\ pc = "timing" => Len(timing_log) = i /\ echo_iter = i - 1
        /\ pc \in {"resample", "resize"} => Len(timing_log) = i + 1 /\ echo_iter = i - 1
        /\ pc \in {"decay", "morph", "feedback", "flipflop"} =>
              Len(timing_log) = i + 1 /\ echo_iter = i
        /\ pc \in {"combine", "done"} =>
              Len(timing_log) = Len(slices) /\ echo_iter = Len(slices) - 1

C10_Witness == InSlurm /\ pc = "done" /\ Len(timing_log) >= 3 /\ timing_function = "main"

====
